---- MODULE Spec2Model ----
(***************************************************************************)
(* The job scheduler of GPUBacktestEngine (src/gpu_server/gpu_engine/      *)
(* engine.py): submit_job, get_job_status, cancel_job and the single       *)
(* worker thread _process_jobs, over the persisted BacktestRecord table,   *)
(* the PriorityQueue job_queue and the in-memory dictionaries active_jobs  *)
(* and job_results.  Client calls run on request threads, so each store    *)
(* access of cancel_job and of the worker loop is a step of its own.  A    *)
(* store operation (a query or a commit of a session) may raise at any     *)
(* time; the actions named ...Fails are the handlers' paths for that.      *)
(***************************************************************************)
EXTENDS Integers, Sequences, FiniteSets, TLC

\* ------------------------------------------------------------------ bounds
MaxJobs == 2
MaxPriority == 1

JobIds == 1..MaxJobs
Priorities == 0..MaxPriority

\* ------------------------------------------------------- models/job.py
PENDING == "pending"
RUNNING == "running"
COMPLETED == "completed"
FAILED == "failed"
CANCELLED == "cancelled"
ABSENT == "absent"

JobStatus == {PENDING, RUNNING, COMPLETED, FAILED, CANCELLED}

\* what get_historical_data returns to _run_backtest: an empty mapping or
\* bars for at least one symbol; "unread" before the call
DataKinds == {"empty", "bars"}
NoData == "unread"

\* the request, reduced to the field the scheduler reads
BacktestRequest == [priority : Priorities]
NoRequest == [priority |-> 0]

NoResults == "none"
BacktestResult == "result"
NoError == ""
NoDataMsg == "No data available for the specified symbols and date range"
ExecMsg == "execution error"

\* a row of backtest_records, reduced to the columns the scheduler reads
\* back (status, results, error); NoRecord is a row that does not exist
BacktestRecord(s, r, e) == [status |-> s, results |-> r, error |-> e]
NoRecord == BacktestRecord(ABSENT, NoResults, NoError)

\* JobStatusResponse, reduced to the fields the scheduler sets
JobStatusResponse(s, r, e) == [status |-> s, results |-> r, error |-> e]
NoResponse == JobStatusResponse(ABSENT, NoResults, NoError)
NotFound == JobStatusResponse("not_found", NoResults, NoError)

NoItem == <<0, 0, NoRequest>>

VARIABLES
  store,          \* backtest_records: job id -> row
  job_queue,      \* the PriorityQueue: a set of (priority, job_id, request)
  active_jobs,    \* self.active_jobs (its keys)
  job_results,    \* self.job_results: job id -> JobStatusResponse
  wpc,            \* where the worker thread is in _process_jobs
  witem,          \* the (priority, job_id, request) the worker took
  wdata,          \* what get_historical_data returned to the running job
  werr,           \* str(e) of the exception _run_backtest raised
  cpc,            \* per job id: where a cancel_job call for it is
  order,          \* history: the jobs the worker has not looked at yet, in the
                  \* order submit_job enqueued them
  cancelledQueued,\* history: jobs whose cancel_job returned True while queued
  failedSubmits,  \* history: the job ids of the submit_job calls that raised
  \* ---- construction of an engine and the choice of a backend
  engine_class,   \* the class under construction, "none" when none is
  CUDA_AVAILABLE, \* engine.py lines 22-33: the pycuda imports succeeded
  CUPY_AVAILABLE, \* engine.py lines 35-42: the cupy import succeeded
  ipc,            \* where the constructor is
  cuda_device,    \* self.cuda_device
  cuda_context,   \* self.cuda_context
  kernels,        \* self.kernels: the strategy names that have a kernel
  init_failed,    \* history: the device initialization raised
  strategy_name,  \* the strategy of the execution
  backend,        \* the backend _execute_strategy dispatched to
  \* ---- one execution of a strategy on the closes of one symbol
  xpc,            \* where the execution is
  xerr,           \* the message of the exception it raised
  parameters,     \* request.strategy.parameters
  close,          \* ohlcv[:, 3], bar index -> price
  signals,        \* the signal array, bar index -> value
  positions,      \* the position array, bar index -> value
  threads_run,    \* the kernel threads that have run
  \* ---- _generate_trades on the positions of one symbol
  gpc,            \* where _generate_trades is
  bar,            \* i of its loop
  trades,         \* the list of the trades it has appended
  current_position,  \* engine.py: the position of the open trade, 0 if none
  in_position,    \* backtest_engine.py: a trade is open
  entry_idx,      \* the bar of entry_date (and entry_idx)
  entry_price,    \* in units of 1/RateDen
  slippage,       \* request.execution.slippage, in units of 1/RateDen
  commission,     \* request.execution.commission, in units of 1/RateDen
  \* ---- _calculate_equity_curve on the same positions
  epc,            \* where _calculate_equity_curve is
  equity,         \* the equity array, in units of the initial capital
  shares,         \* shares, in units of the initial capital per price unit
  realized,       \* history: the pnl computed at the bars that close a position
  \* ---- the maximum drawdown of an equity curve
  mpc,            \* where the calculation is
  equity_curve,   \* index -> equity
  max_drawdown,   \* the value returned
  \* ---- the overall metrics of a list of trades
  opc,            \* where the calculation is
  pnls,           \* trade.pnl of each trade, in units of the initial capital
  drawdowns,      \* the list of the symbols' maximum drawdowns
  years,          \* the years from the first entry to the last exit
  metrics_to_calculate,  \* request.output.metrics
  metrics         \* the Metrics object (the dictionary, for utils/metrics.py)

schedVars == <<store, job_queue, active_jobs, job_results, wpc, witem, wdata,
               werr, cpc, order, cancelledQueued, failedSubmits>>
engineVars == <<engine_class, CUDA_AVAILABLE, CUPY_AVAILABLE, ipc,
                cuda_device, cuda_context, kernels, init_failed, strategy_name, backend>>

execVars == <<xpc, xerr, parameters, close, signals, positions, threads_run>>

\* the variables of the computations a job runs, which no scheduler step
\* touches
tradeVars == <<gpc, bar, trades, current_position, in_position, entry_idx,
               entry_price, slippage, commission>>

metricVars == <<mpc, equity_curve, max_drawdown>>

\* the variables of what follows the execution of the strategy
equityVars == <<epc, equity, shares, realized>>

overallVars == <<opc, pnls, drawdowns, years, metrics_to_calculate, metrics>>

postVars == <<tradeVars, equityVars, metricVars, overallVars>>

calcVars == <<engineVars, execVars, postVars>>

vars == <<schedVars, calcVars>>

workerVars == <<wpc, witem, wdata, werr>>
cancelVars == <<cpc, cancelledQueued>>

\* the four strategies of list_strategies
StrategyNames ==
  {"MovingAverageCrossover", "BollingerBands", "MomentumStrategy",
   "MeanReversion"}

\* an attribute of the engine object that was never assigned
NoAttribute == {"<unset>"}

\* no engine is under construction and nothing is executed
EngineOff ==
  /\ engine_class = "none"
  /\ CUDA_AVAILABLE = FALSE
  /\ CUPY_AVAILABLE = FALSE
  /\ ipc = "off"
  /\ cuda_device = "unset"
  /\ cuda_context = "unset"
  /\ kernels = NoAttribute
  /\ init_failed = FALSE
  /\ strategy_name = "none"
  /\ backend = "none"

\* an array that was not produced
NoArray == << >>

\* the parameters dictionary with every name the implementations read; the
\* caller passes momentum_window = window and z_threshold = entry_threshold
StrategyParameters(sw, lw, st, w, ns, th, en, ex) ==
  [short_window |-> sw, long_window |-> lw, signal_threshold |-> st,
   window |-> w, num_std |-> ns, threshold |-> th,
   entry_threshold |-> en, exit_threshold |-> ex]

NoParameters == StrategyParameters(0, 0, 0, 0, 0, 0, 0, 0)

\* no strategy is being executed
ExecOff ==
  /\ xpc = "off"
  /\ xerr = ""
  /\ parameters = NoParameters
  /\ close = NoArray
  /\ signals = NoArray
  /\ positions = NoArray
  /\ threads_run = {}

\* a local variable that holds None
None == "None"

\* _generate_trades is not running
TradeOff ==
  /\ gpc = "off"
  /\ bar = 0
  /\ trades = << >>
  /\ current_position = 0
  /\ in_position = FALSE
  /\ entry_idx = None
  /\ entry_price = None
  /\ slippage = 0
  /\ commission = 0

\* _calculate_equity_curve is not running
EquityOff ==
  /\ epc = "off"
  /\ equity = NoArray
  /\ shares = 0
  /\ realized = {}

\* an Optional field of a model that holds None
Unset == [kind |-> "None", num |-> 0, den |-> 0]

\* models/job.py 78-92 and core/models.py 65-77
MetricFields ==
  {"sharpe_ratio", "max_drawdown", "total_return", "volatility", "win_rate",
   "profit_factor", "avg_trade", "num_trades", "max_consecutive_wins",
   "max_consecutive_losses", "cagr", "calmar_ratio", "sortino_ratio"}

\* Metrics() and BacktestMetrics(): every field is None
NewMetrics == [f \in MetricFields |-> Unset]

\* the overall metrics are not being calculated
OverallOff ==
  /\ opc = "off"
  /\ pnls = << >>
  /\ drawdowns = << >>
  /\ years = 0
  /\ metrics_to_calculate = {}
  /\ metrics = NewMetrics

\* no metric is being calculated
MetricsOff ==
  /\ mpc = "off"
  /\ equity_curve = NoArray
  /\ max_drawdown = None
  /\ OverallOff

\* the scheduler of a constructed engine, before any call
SchedInit ==
  /\ store = [j \in JobIds |-> NoRecord]
  /\ job_queue = {}
  /\ active_jobs = {}
  /\ job_results = [j \in JobIds |-> NoResponse]
  /\ wpc = "get"
  /\ witem = NoItem
  /\ wdata = NoData
  /\ werr = NoError
  /\ cpc = [j \in JobIds |-> "idle"]
  /\ order = <<>>
  /\ cancelledQueued = {}
  /\ failedSubmits = {}

Init ==
  SchedInit /\ EngineOff /\ ExecOff /\ TradeOff /\ EquityOff /\ MetricsOff

\* --------------------------------------------------------------- helpers
QueuedIds == {t[2] : t \in job_queue}

\* tuple order of (priority, job_id, request): priority first, then job_id
ItemLess(t, u) == t[1] < u[1] \/ (t[1] = u[1] /\ t[2] < u[2])

\* mutant: the queue items put as (job_id, priority, request), so that the
\* job id is compared first
QueueGet_JobIdFirst(q) == CHOOSE t \in q : \A u \in q : t[2] <= u[2]

\* PriorityQueue.get: the smallest item
QueueGet(q) == CHOOSE t \in q : \A u \in q : u = t \/ ItemLess(t, u)

\* mutant: the row's status string compared with the enum member instead of
\* its value, which is never equal
SkipsJob_EnumMember(rec) == rec.status = "JobStatus.CANCELLED"

\* _process_jobs line 411: the worker skips a job whose row says cancelled
SkipsJob(rec) == rec.status = CANCELLED

\* cancel_job line 286: the statuses cancel_job overwrites
Cancellable(rec) == rec.status \in {PENDING, RUNNING}

\* _run_backtest: raises on an empty data mapping, may raise later in the
\* execution (execFault), else returns a BacktestResult
RunBacktest(data, execFault) ==
  IF data = "empty" THEN [ok |-> FALSE, results |-> NoResults, error |-> NoDataMsg]
  ELSE IF execFault THEN [ok |-> FALSE, results |-> NoResults, error |-> ExecMsg]
  ELSE [ok |-> TRUE, results |-> BacktestResult, error |-> NoError]

\* get_job_status: the in-memory cache first, then the store
GetJobStatus(j) ==
  IF job_results[j] # NoResponse THEN job_results[j]
  ELSE IF store[j].status = ABSENT THEN NotFound
  ELSE JobStatusResponse(store[j].status, store[j].results, store[j].error)

\* ------------------------------------------------------------ submit_job
\* line 195 draws a fresh uuid4 for every call: an id is never drawn twice,
\* whether the call returned it or raised
FreshId(j) == store[j].status = ABSENT /\ j \notin failedSubmits

\* lines 198-219: the row is committed as pending, then the item is put on
\* the queue and the id is returned
SubmitJob(j, request) ==
  /\ FreshId(j)
  /\ store' = [store EXCEPT ![j] = BacktestRecord(PENDING, NoResults, NoError)]
  /\ job_queue' = job_queue \cup {<<request.priority, j, request>>}
  /\ order' = Append(order, j)
  /\ UNCHANGED <<active_jobs, job_results, workerVars, cancelVars,
                 failedSubmits, calcVars>>

\* mutant: the item is put on the queue before the row is committed, so a
\* commit that raises leaves it there
SubmitJobFails_PutFirst(j) ==
  /\ FreshId(j)
  /\ failedSubmits' = failedSubmits \cup {j}
  /\ job_queue' = job_queue \cup {<<0, j, NoRequest>>}
  /\ order' = Append(order, j)
  /\ UNCHANGED <<store, active_jobs, job_results, workerVars, cancelVars,
                 calcVars>>

\* lines 208-213: the commit of the new row raises: rollback, the exception
\* is raised again to the caller, lines 215-219 are not reached
SubmitJobFails(j) ==
  /\ FreshId(j)
  /\ failedSubmits' = failedSubmits \cup {j}
  /\ UNCHANGED <<store, job_queue, active_jobs, job_results, workerVars,
                 cancelVars, order, calcVars>>

\* ------------------------------------------------------------ cancel_job
\* lines 274-284 for an id submit_job never returned: the id is not in
\* active_jobs, the query finds no row and ValueError is raised
CancelUnknown(j) ==
  /\ FreshId(j)
  /\ cpc[j] = "idle"
  /\ UNCHANGED vars

\* line 274, for an id submit_job returned: a job in active_jobs is refused
\* at once (returns False)
CancelStart(j) ==
  /\ store[j].status # ABSENT
  /\ cpc[j] = "idle"
  /\ IF j \in active_jobs
       THEN cpc' = cpc
       ELSE cpc' = [cpc EXCEPT ![j] = "query"]
  /\ UNCHANGED <<store, job_queue, active_jobs, job_results, workerVars,
                 order, cancelledQueued, failedSubmits, calcVars>>

\* lines 281-291: the query; a status that is neither pending nor running
\* returns False
CancelQuery(j) ==
  /\ cpc[j] = "query"
  /\ IF Cancellable(store[j])
       THEN cpc' = [cpc EXCEPT ![j] = "commit"]
       ELSE cpc' = [cpc EXCEPT ![j] = "idle"]
  /\ UNCHANGED <<store, job_queue, active_jobs, job_results, workerVars,
                 order, cancelledQueued, failedSubmits, calcVars>>

\* lines 287-289: the row's status is written and committed
CancelCommit(j) ==
  /\ cpc[j] = "commit"
  /\ store' = [store EXCEPT ![j].status = CANCELLED]
  /\ cpc' = [cpc EXCEPT ![j] = "idle"]
  /\ cancelledQueued' = IF j \in QueuedIds THEN cancelledQueued \cup {j}
                        ELSE cancelledQueued
  /\ UNCHANGED <<job_queue, active_jobs, job_results, workerVars, order,
                 failedSubmits, calcVars>>

\* lines 292-295: the query or the commit raises: rollback, re-raise
CancelStoreFails(j) ==
  /\ cpc[j] \in {"query", "commit"}
  /\ cpc' = [cpc EXCEPT ![j] = "idle"]
  /\ UNCHANGED <<store, job_queue, active_jobs, job_results, workerVars,
                 order, cancelledQueued, failedSubmits, calcVars>>

\* --------------------------------------------------------- _process_jobs
wjob == witem[2]

\* line 405: job_queue.get()
WorkerGet ==
  /\ wpc = "get"
  /\ job_queue # {}
  /\ witem' = QueueGet(job_queue)
  /\ job_queue' = job_queue \ {witem'}
  /\ wpc' = "check"
  /\ UNCHANGED <<store, active_jobs, job_results, wdata, werr, cancelVars,
                 order, failedSubmits, calcVars>>

\* lines 408-416: skip a cancelled job (task_done, continue)
WorkerCheck ==
  /\ wpc = "check"
  /\ IF SkipsJob(store[wjob])
       THEN /\ wpc' = "get"
            /\ witem' = NoItem
       ELSE /\ wpc' = "activate"
            /\ witem' = witem
  /\ order' = SelectSeq(order, LAMBDA i : i # wjob)
  /\ UNCHANGED <<store, job_queue, active_jobs, job_results, wdata, werr,
                 cancelVars, failedSubmits, calcVars>>

\* lines 408-416 with the query raising: there is no except clause here, so
\* the exception reaches line 493 and the loop goes on without the job
WorkerCheckFails ==
  /\ wpc = "check"
  /\ wpc' = "get"
  /\ witem' = NoItem
  /\ order' = SelectSeq(order, LAMBDA i : i # wjob)
  /\ UNCHANGED <<store, job_queue, active_jobs, job_results, wdata, werr,
                 cancelVars, failedSubmits, calcVars>>

\* line 419
WorkerActivate ==
  /\ wpc = "activate"
  /\ active_jobs' = active_jobs \cup {wjob}
  /\ wpc' = "mark"
  /\ UNCHANGED <<store, job_queue, job_results, witem, wdata, werr,
                 cancelVars, order, failedSubmits, calcVars>>

\* lines 422-426: the row's status is set to running and committed
WorkerMarkRunning ==
  /\ wpc = "mark"
  /\ store' = [store EXCEPT ![wjob].status = RUNNING]
  /\ wpc' = "run"
  /\ UNCHANGED <<job_queue, active_jobs, job_results, witem, wdata, werr,
                 cancelVars, order, failedSubmits, calcVars>>

\* lines 427-431: that write raises: rollback, logged, the job runs anyway
WorkerMarkRunningFails ==
  /\ wpc = "mark"
  /\ wpc' = "run"
  /\ UNCHANGED <<store, job_queue, active_jobs, job_results, witem, wdata,
                 werr, cancelVars, order, failedSubmits, calcVars>>

\* lines 435-438 and 464-465: _run_backtest returns or raises
WorkerRun ==
  /\ wpc = "run"
  /\ \E data \in DataKinds, execFault \in BOOLEAN :
       LET out == RunBacktest(data, execFault) IN
         /\ wdata' = data
         /\ wpc' = IF out.ok THEN "save_result" ELSE "save_error"
         /\ werr' = out.error
  /\ UNCHANGED <<store, job_queue, active_jobs, job_results, witem,
                 cancelVars, order, failedSubmits, calcVars>>

\* lines 441-447: status completed and the results are committed
WorkerSaveResult ==
  /\ wpc = "save_result"
  /\ store' = [store EXCEPT ![wjob].status = COMPLETED,
                            ![wjob].results = BacktestResult]
  /\ wpc' = "cache_result"
  /\ UNCHANGED <<job_queue, active_jobs, job_results, witem, wdata, werr,
                 cancelVars, order, failedSubmits, calcVars>>

\* lines 450-456: the response is kept in job_results
WorkerCacheResult ==
  /\ wpc = "cache_result"
  /\ job_results' = [job_results EXCEPT
                       ![wjob] = JobStatusResponse(COMPLETED, BacktestResult, NoError)]
  /\ wpc' = "cleanup"
  /\ UNCHANGED <<store, job_queue, active_jobs, witem, wdata, werr,
                 cancelVars, order, failedSubmits, calcVars>>

\* lines 468-473: status failed and str(e) are committed
WorkerSaveError ==
  /\ wpc = "save_error"
  /\ store' = [store EXCEPT ![wjob].status = FAILED, ![wjob].error = werr]
  /\ wpc' = "cache_error"
  /\ UNCHANGED <<job_queue, active_jobs, job_results, witem, wdata, werr,
                 cancelVars, order, failedSubmits, calcVars>>

\* lines 476-481
WorkerCacheError ==
  /\ wpc = "cache_error"
  /\ job_results' = [job_results EXCEPT
                       ![wjob] = JobStatusResponse(FAILED, NoResults, werr)]
  /\ wpc' = "cleanup"
  /\ UNCHANGED <<store, job_queue, active_jobs, witem, wdata, werr,
                 cancelVars, order, failedSubmits, calcVars>>

\* lines 459-463 and 482-486: the write of the outcome raises: rollback,
\* logged, nothing is kept in job_results and nothing is tried again
WorkerSaveFails ==
  /\ wpc \in {"save_result", "save_error"}
  /\ wpc' = "cleanup"
  /\ UNCHANGED <<store, job_queue, active_jobs, job_results, witem, wdata,
                 werr, cancelVars, order, failedSubmits, calcVars>>

\* lines 489-492: del active_jobs[job_id]; task_done
WorkerCleanup ==
  /\ wpc = "cleanup"
  /\ active_jobs' = active_jobs \ {wjob}
  /\ wpc' = "get"
  /\ witem' = NoItem
  /\ wdata' = NoData
  /\ werr' = NoError
  /\ UNCHANGED <<store, job_queue, job_results, cancelVars, order, failedSubmits,
                 calcVars>>

Worker ==
  \/ WorkerGet
  \/ WorkerCheck
  \/ WorkerCheckFails
  \/ WorkerActivate
  \/ WorkerMarkRunning
  \/ WorkerMarkRunningFails
  \/ WorkerRun
  \/ WorkerSaveResult
  \/ WorkerCacheResult
  \/ WorkerSaveError
  \/ WorkerCacheError
  \/ WorkerSaveFails
  \/ WorkerCleanup

Client ==
  \E j \in JobIds :
    \/ \E r \in BacktestRequest : SubmitJob(j, r)
    \/ SubmitJobFails(j)
    \/ CancelUnknown(j)
    \/ CancelStart(j)
    \/ CancelQuery(j)
    \/ CancelCommit(j)
    \/ CancelStoreFails(j)

Next == Worker \/ Client

Spec == Init /\ [][Next]_vars

\* the worker thread is a daemon loop that is always scheduled again
FairSpec == Spec /\ WF_vars(Worker)

\* ===================================== construction and backend dispatch
\* GPUBacktestEngine.__init__ (engine.py 85-116) with _initialize_cuda and
\* _initialize_kernels, BacktestEngine.__init__ (backtest_engine.py 32-50),
\* and the dispatch of _execute_strategy (engine.py 617-642) in the engine
\* that was constructed.  A call into the CUDA driver or the kernel compiler
\* may raise.

EngineClasses == {"GPUBacktestEngine", "BacktestEngine"}

\* the order in which _initialize_kernels compiles the kernels
KernelOrder ==
  <<"MovingAverageCrossover", "BollingerBands", "MomentumStrategy",
    "MeanReversion">>

EngineInit ==
  /\ SchedInit
  /\ engine_class \in EngineClasses
  /\ CUDA_AVAILABLE \in BOOLEAN
  /\ CUPY_AVAILABLE \in BOOLEAN
  \* backtest_engine.py imports pycuda at lines 4-5 without a guard and
  \* never uses cupy
  /\ engine_class = "BacktestEngine" => CUDA_AVAILABLE /\ ~CUPY_AVAILABLE
  /\ ipc = "start"
  /\ cuda_device = "unset"
  /\ cuda_context = "unset"
  /\ kernels = NoAttribute
  /\ init_failed = FALSE
  /\ strategy_name = "none"
  /\ backend = "none"
  /\ ExecOff
  /\ TradeOff
  /\ EquityOff
  /\ MetricsOff

\* engine.py 103-112: without the CUDA libraries cuda_context is None and
\* _initialize_cuda is not called
ConstructStart ==
  /\ engine_class = "GPUBacktestEngine"
  /\ ipc = "start"
  /\ IF CUDA_AVAILABLE
       THEN ipc' = "device" /\ cuda_context' = cuda_context
       ELSE ipc' = "built" /\ cuda_context' = "None"
  /\ UNCHANGED <<schedVars, execVars, postVars, engine_class, CUDA_AVAILABLE, CUPY_AVAILABLE,
                 cuda_device, kernels, init_failed, strategy_name, backend>>

\* engine.py 120: cuda.Device(...)
InitDevice ==
  /\ engine_class = "GPUBacktestEngine"
  /\ ipc = "device"
  /\ cuda_device' = "device"
  /\ ipc' = "context"
  /\ UNCHANGED <<schedVars, execVars, postVars, engine_class, CUDA_AVAILABLE, CUPY_AVAILABLE,
                 cuda_context, kernels, init_failed, strategy_name, backend>>

\* engine.py 121: make_context()
MakeContext ==
  /\ engine_class = "GPUBacktestEngine"
  /\ ipc = "context"
  /\ cuda_context' = "context"
  /\ ipc' = "attributes"
  /\ UNCHANGED <<schedVars, execVars, postVars, engine_class, CUDA_AVAILABLE, CUPY_AVAILABLE,
                 cuda_device, kernels, init_failed, strategy_name, backend>>

\* engine.py 124: the device attributes are read
GetAttributes ==
  /\ engine_class = "GPUBacktestEngine"
  /\ ipc = "attributes"
  /\ ipc' = "log"
  /\ UNCHANGED <<schedVars, execVars, postVars, engine_class, CUDA_AVAILABLE, CUPY_AVAILABLE,
                 cuda_device, cuda_context, kernels, init_failed,
                 strategy_name, backend>>

\* engine.py 126-128: the name, the compute capability and the memory size
\* of the device are asked for and logged
LogDevice ==
  /\ engine_class = "GPUBacktestEngine"
  /\ ipc = "log"
  /\ ipc' = "kernels"
  /\ UNCHANGED <<schedVars, execVars, postVars, engine_class, CUDA_AVAILABLE, CUPY_AVAILABLE,
                 cuda_device, cuda_context, kernels, init_failed,
                 strategy_name, backend>>

\* engine.py 131-138: _initialize_kernels assigns self.kernels = {}
InitializeKernels ==
  /\ engine_class = "GPUBacktestEngine"
  /\ ipc = "kernels"
  /\ kernels' = {}
  /\ ipc' = "compile"
  /\ UNCHANGED <<schedVars, execVars, postVars, engine_class, CUDA_AVAILABLE, CUPY_AVAILABLE,
                 cuda_device, cuda_context, init_failed, strategy_name,
                 backend>>

\* engine.py 141-150: the next kernel is compiled and stored; after the
\* fourth _initialize_cuda returns
CompileKernel ==
  /\ engine_class = "GPUBacktestEngine"
  /\ ipc = "compile"
  /\ kernels' = kernels \cup {KernelOrder[Cardinality(kernels) + 1]}
  /\ ipc' = IF Cardinality(kernels') = Len(KernelOrder) THEN "built"
            ELSE "compile"
  /\ UNCHANGED <<schedVars, execVars, postVars, engine_class, CUDA_AVAILABLE, CUPY_AVAILABLE,
                 cuda_device, cuda_context, init_failed, strategy_name,
                 backend>>

\* engine.py 105-110: a statement of _initialize_cuda or _initialize_kernels
\* raises: the exception is logged, cuda_context is set to None and the
\* construction goes on; self.kernels keeps what it held at that moment
InitializeCudaFails ==
  /\ engine_class = "GPUBacktestEngine"
  /\ ipc \in {"device", "context", "attributes", "log", "kernels", "compile"}
  /\ init_failed' = TRUE
  /\ cuda_context' = "None"
  /\ ipc' = "built"
  /\ UNCHANGED <<schedVars, execVars, postVars, engine_class, CUDA_AVAILABLE, CUPY_AVAILABLE,
                 cuda_device, kernels, strategy_name, backend>>

\* backtest_engine.py 39-46: device, context and attributes without an error
BacktestEngineInit ==
  /\ engine_class = "BacktestEngine"
  /\ ipc = "start"
  /\ cuda_device' = "device"
  /\ cuda_context' = "context"
  /\ ipc' = "built"
  /\ UNCHANGED <<schedVars, execVars, postVars, engine_class, CUDA_AVAILABLE, CUPY_AVAILABLE,
                 kernels, init_failed, strategy_name, backend>>

\* backtest_engine.py 48-50: any of them raises: RuntimeError is raised out
\* of the constructor
BacktestEngineInitFails ==
  /\ engine_class = "BacktestEngine"
  /\ ipc = "start"
  /\ init_failed' = TRUE
  /\ ipc' = "raised"
  /\ UNCHANGED <<schedVars, execVars, postVars, engine_class, CUDA_AVAILABLE, CUPY_AVAILABLE,
                 cuda_device, cuda_context, kernels, strategy_name, backend>>

\* engine.py 634-642: the backend for a strategy; reading self.kernels when
\* it was never assigned raises AttributeError
DispatchBackend(name) ==
  IF CUDA_AVAILABLE /\ kernels = NoAttribute THEN "AttributeError"
  ELSE IF CUDA_AVAILABLE /\ name \in kernels THEN "gpu"
  ELSE IF CUPY_AVAILABLE THEN "cupy"
  ELSE "cpu"

\* _run_backtest line 551 for a job of the constructed engine
ExecuteStrategy(name) ==
  /\ engine_class = "GPUBacktestEngine"
  /\ ipc = "built"
  /\ backend = "none"
  /\ strategy_name' = name
  /\ backend' = DispatchBackend(name)
  /\ UNCHANGED <<schedVars, execVars, postVars, engine_class, CUDA_AVAILABLE, CUPY_AVAILABLE,
                 cuda_device, ipc, cuda_context, kernels, init_failed>>

\* backtest_engine.py 83-109: run_backtest of a constructed BacktestEngine
\* calls execute_on_gpu of the strategy class, which always launches the
\* device kernel
ExecuteOnStrategyClass(name) ==
  /\ engine_class = "BacktestEngine"
  /\ ipc = "built"
  /\ backend = "none"
  /\ strategy_name' = name
  /\ backend' = "gpu"
  /\ UNCHANGED <<schedVars, execVars, postVars, engine_class, CUDA_AVAILABLE, CUPY_AVAILABLE, ipc,
                 cuda_device, cuda_context, kernels, init_failed>>

\* the next execution: the engine and its attributes stay as they are
NextJob ==
  /\ backend # "none"
  /\ strategy_name' = "none"
  /\ backend' = "none"
  /\ UNCHANGED <<schedVars, execVars, postVars, engine_class, CUDA_AVAILABLE, CUPY_AVAILABLE,
                 cuda_device, ipc, cuda_context, kernels, init_failed>>

EngineNext ==
  \/ ConstructStart
  \/ InitDevice
  \/ MakeContext
  \/ GetAttributes
  \/ LogDevice
  \/ InitializeKernels
  \/ CompileKernel
  \/ InitializeCudaFails
  \/ BacktestEngineInit
  \/ BacktestEngineInitFails
  \/ \E name \in StrategyNames : ExecuteStrategy(name)
  \/ \E name \in StrategyNames : ExecuteOnStrategyClass(name)
  \/ NextJob

EngineSpec == EngineInit /\ [][EngineNext]_vars

\* ================================================== strategy execution
\* One execution of a strategy on the close prices of one symbol, by the
\* backend the engine dispatches to: _execute_on_cpu, _execute_on_cupy and
\* _execute_on_gpu with the kernels of gpu_engine/kernels.py (engine.py
\* 644-1003), and execute_on_gpu of the strategy classes with the kernels of
\* engine/cuda_kernels.py (strategies/*.py).  Bars are numbered from 0 as in
\* the source.  Prices are small positive integers and thresholds are given
\* in units of 1/ThresholdDen, so that every comparison of means, deviations
\* and ratios is decided exactly by cross-multiplication.

\* ------------------------------------------------------------------ bounds
ActiveBars == 2
MaxPrice == 2

ThresholdDen == 4

Prices == 1..MaxPrice

\* the parameter dictionaries a request may carry for a strategy, valid and
\* not; a threshold t stands for t/ThresholdDen
ParameterSets(name) ==
  IF name = "MovingAverageCrossover" THEN
    {StrategyParameters(sw, 3, st, 0, 0, 0, 0, 0) : sw \in 1..3, st \in 0..1}
  ELSE IF name = "BollingerBands" THEN
    {StrategyParameters(0, 0, 0, w, ns, 0, 0, 0) : w \in {1, 3}, ns \in {0, 5}}
  ELSE IF name = "MomentumStrategy" THEN
    {StrategyParameters(0, 0, 0, w, 0, th, 0, 0) : w \in 1..2, th \in 0..1}
  ELSE
    {StrategyParameters(0, 0, 0, w, 0, 0, en, 3) : w \in 4..5, en \in {0, 6}}

\* strategies/moving_average.py 47-51, bollinger_bands.py 46-50,
\* momentum.py 46-50, mean_reversion.py 46-50: the checks of the strategy
\* classes
ValidParameters(name, p) ==
  IF name = "MovingAverageCrossover" THEN
    ~(p.short_window >= p.long_window) /\ ~(p.short_window < 2)
  ELSE IF name = "BollingerBands" THEN
    ~(p.window < 2) /\ ~(p.num_std <= 0)
  ELSE IF name = "MomentumStrategy" THEN
    ~(p.window < 2) /\ ~(p.threshold <= 0)
  ELSE
    ~(p.window < 5) /\ ~(p.entry_threshold <= 0)

\* the first bar for which a strategy computes a signal
FirstBar(name, p) ==
  IF name = "MovingAverageCrossover" THEN p.long_window ELSE p.window

\* the last bar of the series of an execution: the bars before the first
\* computed one and ActiveBars computed bars
LastBar(name, p) == FirstBar(name, p) + ActiveBars - 1

\* a constructed engine whose device initialization, if any, succeeded
EngineBuilt ==
  /\ engine_class \in EngineClasses
  /\ CUDA_AVAILABLE \in BOOLEAN
  /\ CUPY_AVAILABLE \in BOOLEAN
  /\ engine_class = "BacktestEngine" => CUDA_AVAILABLE /\ ~CUPY_AVAILABLE
  /\ ipc = "built"
  /\ cuda_device = IF CUDA_AVAILABLE THEN "device" ELSE "unset"
  /\ cuda_context = IF CUDA_AVAILABLE THEN "context" ELSE "None"
  /\ kernels = IF CUDA_AVAILABLE /\ engine_class = "GPUBacktestEngine"
               THEN StrategyNames ELSE NoAttribute
  /\ init_failed = FALSE

\* the backend a built engine executes a strategy on
BackendOf(name) ==
  IF engine_class = "BacktestEngine" THEN "gpu" ELSE DispatchBackend(name)

ExecInit ==
  /\ SchedInit
  /\ EngineBuilt
  /\ TradeOff
  /\ EquityOff
  /\ MetricsOff
  /\ strategy_name \in StrategyNames
  /\ backend = BackendOf(strategy_name)
  /\ parameters \in ParameterSets(strategy_name)
  /\ close \in [0..(LastBar(strategy_name, parameters)) -> Prices]
  /\ xpc = "start"
  /\ xerr = ""
  /\ signals = NoArray
  /\ positions = NoArray
  /\ threads_run = {}

\* ------------------------------------------------------------ arithmetic
Bars == DOMAIN close
n_bars == Cardinality(Bars)

Abs(x) == IF x < 0 THEN -x ELSE x

RECURSIVE WindowSum(_, _)
\* the sum of the w closes that end at bar i
WindowSum(i, w) == IF w = 0 THEN 0 ELSE close[i] + WindowSum(i - 1, w - 1)

RECURSIVE WindowSumSq(_, _)
\* the sum of the squares of the w closes that end at bar i
WindowSumSq(i, w) ==
  IF w = 0 THEN 0 ELSE close[i] * close[i] + WindowSumSq(i - 1, w - 1)

\* w * (mean - close[i]) for the window of w closes that ends at bar i
Deviation(i, w) == WindowSum(i, w) - w * close[i]

\* w * w * (population variance) of that window
SpreadSq(i, w) == w * WindowSumSq(i, w) - WindowSum(i, w) * WindowSum(i, w)

\* abs(close[i] - mean) > (t/ThresholdDen) * std, with std the standard
\* deviation with ddof degrees of freedom removed (pandas rolling std: 1,
\* the kernels and cp.std: 0); false when std is NaN
DeviatesBy(i, w, t, ddof) ==
  ThresholdDen * ThresholdDen * Deviation(i, w) * Deviation(i, w) * (w - ddof)
    > t * t * w * SpreadSq(i, w)

\* abs(z_score) < t/ThresholdDen; false when z_score is NaN (std is 0 or NaN)
ZWithin(i, w, t, ddof) ==
  /\ SpreadSq(i, w) > 0
  /\ w - ddof > 0
  /\ ThresholdDen * ThresholdDen * Deviation(i, w) * Deviation(i, w) * (w - ddof)
       < t * t * w * SpreadSq(i, w)

\* z_score is NaN: 0/0 or a NaN standard deviation
ZNaN(i, w, ddof) == SpreadSq(i, w) = 0 \/ w - ddof <= 0

\* sw * lw * (short_ma - long_ma) at bar i
MADiff(i, p) ==
  WindowSum(i, p.short_window) * p.long_window
    - WindowSum(i, p.long_window) * p.short_window

\* abs(short_ma - long_ma) > signal_threshold * close[i]
MAGateRelative(i, p) ==
  ThresholdDen * Abs(MADiff(i, p))
    > p.signal_threshold * close[i] * p.short_window * p.long_window

\* ThresholdDen * close[i-w] * (momentum - threshold terms): the sign of
\* momentum > t/ThresholdDen is that of MomentumExcess(i, w) - t * close[i-w]
MomentumExcess(i, w) == ThresholdDen * (close[i] - close[i - w])

\* ------------------------------------------------ signals, bar by bar
\* engine.py 916-926 and kernels.py 62-84: the crossover gated by the
\* threshold times the close
MASignal(i, p) ==
  IF MADiff(i, p) > 0 /\ MAGateRelative(i, p) THEN 1
  ELSE IF MADiff(i, p) < 0 /\ MAGateRelative(i, p) THEN -1
  ELSE 0

\* cuda_kernels.py 46-52: the difference itself against the threshold
MASignalClass(i, p) ==
  IF ThresholdDen * MADiff(i, p)
       > p.signal_threshold * p.short_window * p.long_window THEN 1
  ELSE IF ThresholdDen * MADiff(i, p)
       < -(p.signal_threshold * p.short_window * p.long_window) THEN -1
  ELSE 0

\* engine.py 943-950 (ddof 1), kernels.py 130-158 and cuda_kernels.py 86-113
\* and engine.py 803-814 (ddof 0)
BBSignal(i, p, ddof) ==
  IF Deviation(i, p.window) > 0 /\ DeviatesBy(i, p.window, p.num_std, ddof)
    THEN 1
  ELSE IF Deviation(i, p.window) < 0
            /\ DeviatesBy(i, p.window, p.num_std, ddof) THEN -1
  ELSE 0

\* engine.py 959-971, 820-831, kernels.py 203-213, cuda_kernels.py 147-158
MomentumSignal(i, p) ==
  IF MomentumExcess(i, p.window) > p.threshold * close[i - p.window] THEN 1
  ELSE IF MomentumExcess(i, p.window) < -(p.threshold * close[i - p.window])
    THEN -1
  ELSE 0

\* engine.py 988-999 (ddof 1), kernels.py 260-289 and cuda_kernels.py
\* 192-219 (ddof 0): the entry signals of the mean reversion
MRSignal(i, p, ddof) ==
  IF Deviation(i, p.window) > 0
       /\ DeviatesBy(i, p.window, p.entry_threshold, ddof) THEN 1
  ELSE IF Deviation(i, p.window) < 0
       /\ DeviatesBy(i, p.window, p.entry_threshold, ddof) THEN -1
  ELSE 0

\* the signal of bar i in the scalar loop and in the kernels
BarSignal(name, i, p, ddof, class) ==
  IF i < FirstBar(name, p) THEN 0
  ELSE IF name = "MovingAverageCrossover" THEN
    (IF class THEN MASignalClass(i, p) ELSE MASignal(i, p))
  ELSE IF name = "BollingerBands" THEN BBSignal(i, p, ddof)
  ELSE IF name = "MomentumStrategy" THEN MomentumSignal(i, p)
  ELSE MRSignal(i, p, ddof)

\* ------------------------------------------------------- _execute_on_cpu
\* engine.py 995-997: the branch of the mean reversion that sets the
\* position to 0 with a signal of 0
CpuExits(name, i, p) ==
  /\ name = "MeanReversion"
  /\ i >= p.window
  /\ BarSignal(name, i, p, 1, FALSE) = 0
  /\ ZWithin(i, p.window, p.exit_threshold, 1)

RECURSIVE CpuPosition(_, _, _)
\* engine.py 915-928, 941-952, 962-973, 986-1001: positions[i] of the loop
CpuPosition(name, i, p) ==
  IF i < FirstBar(name, p) \/ i = 0 THEN 0
  ELSE IF BarSignal(name, i, p, 1, FALSE) # 0
    THEN BarSignal(name, i, p, 1, FALSE)
  ELSE IF CpuExits(name, i, p) THEN 0
  ELSE IF i - 1 < FirstBar(name, p) THEN 0
  ELSE CpuPosition(name, i - 1, p)

CpuSignals(name, p) == [i \in Bars |-> BarSignal(name, i, p, 1, FALSE)]
CpuPositions(name, p) == [i \in Bars |-> CpuPosition(name, i, p)]

\* engine.py 886-1003: no check of the parameters; the whole loop
ExecuteOnCpu ==
  /\ xpc = "start"
  /\ engine_class = "GPUBacktestEngine"
  /\ backend = "cpu"
  /\ signals' = CpuSignals(strategy_name, parameters)
  /\ positions' = CpuPositions(strategy_name, parameters)
  /\ xpc' = "done"
  /\ UNCHANGED <<schedVars, engineVars, postVars, xerr, parameters, close, threads_run>>

\* ------------------------------------------------------ _execute_on_cupy
\* engine.py 771-783: the two padded averages have the lengths
\* n + long_window - short_window and n, so that the subtraction of their
\* slices raises unless the windows are equal
CupyRaises(name, p) ==
  name = "MovingAverageCrossover" /\ p.short_window # p.long_window

\* engine.py 856-865: the value where() gives at bar i >= window; "nan"
\* where the previous signal is to be kept
CupyMRRaw(i, p) ==
  IF ZNaN(i, p.window, 0) THEN "nan"
  ELSE IF MRSignal(i, p, 0) # 0 THEN "set"
  ELSE IF ZWithin(i, p.window, p.exit_threshold, 0) THEN "set"
  ELSE "nan"

RECURSIVE CupySignal(_, _, _)
\* engine.py 765-871: d_signals[i]
CupySignal(name, i, p) ==
  IF name = "MovingAverageCrossover" THEN 0
  ELSE IF name = "MomentumStrategy" THEN
    (IF i < p.window
       THEN (IF 0 > p.threshold THEN 1 ELSE IF 0 < -p.threshold THEN -1 ELSE 0)
       ELSE MomentumSignal(i, p))
  ELSE IF i < p.window THEN 0
  ELSE IF name = "BollingerBands" THEN BBSignal(i, p, 0)
  ELSE IF CupyMRRaw(i, p) = "nan" THEN CupySignal(name, i - 1, p)
  ELSE MRSignal(i, p, 0)

RECURSIVE ForwardFillAt(_, _)
\* engine.py 873-878: the scan over the signals, positions[0] staying 0
ForwardFillAt(sig, i) ==
  IF i = 0 THEN 0
  ELSE IF sig[i] # 0 THEN sig[i]
  ELSE ForwardFillAt(sig, i - 1)

ForwardFill(sig) == [i \in DOMAIN sig |-> ForwardFillAt(sig, i)]

CupySignals(name, p) == [i \in Bars |-> CupySignal(name, i, p)]

ExecuteOnCupy ==
  /\ xpc = "start"
  /\ engine_class = "GPUBacktestEngine"
  /\ backend = "cupy"
  /\ IF CupyRaises(strategy_name, parameters)
       THEN /\ xpc' = "raised"
            /\ xerr' = "operands could not be broadcast together"
            /\ UNCHANGED <<signals, positions>>
       ELSE /\ xpc' = "done"
            /\ xerr' = xerr
            /\ signals' = CupySignals(strategy_name, parameters)
            /\ positions' = ForwardFill(signals')
  /\ UNCHANGED <<schedVars, engineVars, postVars, parameters, close, threads_run>>

\* ------------------------------------------------- the device kernels
\* what a read of device memory that cuda.mem_alloc returned and that no
\* thread has written yet may give (engine.py 656-658): any float, here the
\* three position values and one other value
Garbage == 7
UninitValues == {-1, 0, 1, Garbage}

\* engine.py 644-734: _execute_on_gpu allocates the arrays and launches the
\* kernel, one thread per bar; no check of the parameters
ExecuteOnGpu ==
  /\ xpc = "start"
  /\ engine_class = "GPUBacktestEngine"
  /\ backend = "gpu"
  /\ signals' = [i \in Bars |-> 0]
  /\ positions' = [i \in Bars |-> 0]
  /\ threads_run' = {}
  /\ xpc' = "kernel"
  /\ UNCHANGED <<schedVars, engineVars, postVars, xerr, parameters, close>>

\* strategies/*.py 42-78: execute_on_gpu of the strategy class checks the
\* parameters, fills the arrays with zeros and launches the kernel
StrategyExecuteOnGpu ==
  /\ xpc = "start"
  /\ engine_class = "BacktestEngine"
  /\ IF ValidParameters(strategy_name, parameters)
       THEN /\ signals' = [i \in Bars |-> 0]
            /\ positions' = [i \in Bars |-> 0]
            /\ xpc' = "kernel"
            /\ xerr' = xerr
       ELSE /\ xpc' = "raised"
            /\ xerr' = "ValueError"
            /\ UNCHANGED <<signals, positions>>
  /\ threads_run' = {}
  /\ UNCHANGED <<schedVars, engineVars, postVars, parameters, close>>

\* what thread idx reads from positions[idx - 1]: the value thread idx - 1
\* wrote when that thread has run; before that, uninitialized memory
\* (kernels.py) or the zero the array was filled with and that thread
\* idx - 1 writes first (cuda_kernels.py 26, strategies/*.py 59-60)
PreviousPositionReads(idx) ==
  IF idx - 1 \in threads_run THEN {positions[idx - 1]}
  ELSE IF engine_class = "GPUBacktestEngine" THEN UninitValues
  ELSE {0}

\* kernels.py 292-298: the mean reversion kernel keeps the previous position
\* only when abs(z_score) >= exit_threshold, which is false for a NaN
KernelKeepsPrevious(name, idx, p) ==
  name = "MeanReversion" =>
    /\ ~ZNaN(idx, p.window, 0)
    /\ ~ZWithin(idx, p.window, p.exit_threshold, 0)

\* cuda_kernels.py 208: the mean reversion kernel returns with signal and
\* position 0 when the standard deviation is 0
ClassKernelReturnsEarly(name, idx, p) ==
  name = "MeanReversion" /\ SpreadSq(idx, p.window) = 0

\* one thread of the kernel: kernels.py 46-93 (and 114-167, 187-222,
\* 244-298) or cuda_kernels.py 20-61 (and 75-122, 136-167, 181-228)
KernelThread(idx) ==
  /\ xpc = "kernel"
  /\ idx \in Bars \ threads_run
  /\ LET class == engine_class = "BacktestEngine"
         s == BarSignal(strategy_name, idx, parameters, 0, class)
         early == \/ idx < FirstBar(strategy_name, parameters)
                  \/ class /\ ClassKernelReturnsEarly(strategy_name, idx,
                                                      parameters)
     IN /\ signals' = [signals EXCEPT ![idx] = IF early THEN 0 ELSE s]
        /\ \E prev \in PreviousPositionReads(idx) :
             positions' = [positions EXCEPT ![idx] =
               IF early THEN 0
               ELSE IF s # 0 THEN s
               ELSE IF idx > 0 /\ (class \/ KernelKeepsPrevious(
                                      strategy_name, idx, parameters))
                 THEN prev
               ELSE 0]
  /\ threads_run' = threads_run \cup {idx}
  /\ UNCHANGED <<schedVars, engineVars, postVars, xpc, xerr, parameters, close>>

\* engine.py 736-740 and strategies/*.py 80-84: every thread has run, the
\* arrays are copied back
CopyResults ==
  /\ xpc = "kernel"
  /\ threads_run = Bars
  /\ xpc' = "done"
  /\ UNCHANGED <<schedVars, engineVars, postVars, xerr, parameters, close, signals,
                 positions, threads_run>>

ExecNext ==
  \/ ExecuteOnCpu
  \/ ExecuteOnCupy
  \/ ExecuteOnGpu
  \/ StrategyExecuteOnGpu
  \/ \E idx \in Bars : KernelThread(idx)
  \/ CopyResults

ExecSpec == ExecInit /\ [][ExecNext]_vars

\* --------------------------------------- the moving average scenario
\* closes [5,5,5,10,10,10,5,5,5] with short_window 2, long_window 3 and
\* signal_threshold 0, executed by whichever backend the engine has
ScenarioCloses == <<5, 5, 5, 10, 10, 10, 5, 5, 5>>

ScenarioParameters == StrategyParameters(2, 3, 0, 0, 0, 0, 0, 0)

ScenarioInit ==
  /\ SchedInit
  /\ EngineBuilt
  /\ TradeOff
  /\ EquityOff
  /\ MetricsOff
  /\ strategy_name = "MovingAverageCrossover"
  /\ backend = BackendOf(strategy_name)
  /\ parameters = ScenarioParameters
  /\ close = [i \in 0..(Len(ScenarioCloses) - 1) |-> ScenarioCloses[i + 1]]
  /\ xpc = "start"
  /\ xerr = ""
  /\ signals = NoArray
  /\ positions = NoArray
  /\ threads_run = {}

ScenarioSpec == ScenarioInit /\ [][ExecNext]_vars

\* ===================================================== _generate_trades
\* The trades of one symbol from its position array: _generate_trades of
\* GPUBacktestEngine (engine.py 1005-1105) and of BacktestEngine
\* (backtest_engine.py 148-196), one step per iteration of the loop.  A date
\* is the index of its bar; prices and the two rates are in units of
\* 1/RateDen.

\* ------------------------------------------------------------------ bounds
MaxTradeBars == 4
RateDen == 10

\* the slippage and commission rates of a request: 0 and 1/RateDen
Rates == 0..1

\* engine.py 1026-1029: position_size for the defaults of ExecutionConfig,
\* "10%" of an initial capital of 100000
position_size == 10000

\* backtest_engine.py 163
ClassPositionSize == 100

\* the position arrays a strategy execution returns for n bars
PositionArrays(n) == {p \in [0..(n - 1) -> {-1, 0, 1}] : p[0] = 0}

\* a float that is an exact quotient
Number(n, d) == [kind |-> "number", num |-> n, den |-> d]

Sign(x) == IF x > 0 THEN 1 ELSE IF x < 0 THEN -1 ELSE 0

\* models/job.py 59-67 and core/models.py 48-55, without the symbol
Trade(ed, xd, ep, xp, ps, pl) ==
  [entry_date |-> ed, exit_date |-> xd, entry_price |-> ep,
   exit_price |-> xp, position_size |-> ps, pnl |-> pl]

TradeInit ==
  /\ SchedInit
  /\ EngineBuilt
  /\ MetricsOff
  /\ strategy_name = "none"
  /\ backend = "none"
  /\ xpc = "off"
  /\ xerr = ""
  /\ parameters = NoParameters
  /\ signals = NoArray
  /\ threads_run = {}
  /\ \E n \in 1..MaxTradeBars :
       /\ positions \in PositionArrays(n)
       /\ close \in [0..(n - 1) -> Prices]
  /\ slippage \in Rates
  /\ commission \in Rates
  /\ gpc = "start"
  /\ bar = 0
  /\ trades = << >>
  /\ current_position = 0
  /\ in_position = FALSE
  /\ entry_idx = None
  /\ entry_price = None
  /\ epc = "start"
  /\ equity = NoArray
  /\ shares = 0
  /\ realized = {}

\* engine.py 1041-1046 and 1084-1088: the close of bar i lowered when a
\* long position is sold, raised when a short one is covered
ExitPrice(i, pos) ==
  close[i] * (IF pos > 0 THEN RateDen - slippage ELSE RateDen + slippage)

\* engine.py 1069-1074
EntryPrice(i, pos) ==
  close[i] * (IF pos > 0 THEN RateDen + slippage ELSE RateDen - slippage)

\* engine.py 1049-1053 and 1090-1092:
\* position_size / abs(entry) * (exit - entry) * sign - commission * size
EnginePnl(ep, xp, pos) ==
  Number(position_size * ((xp - ep) * Sign(pos) * RateDen - commission * Abs(ep)),
         Abs(ep) * RateDen)

\* engine.py 1056-1065 and 1094-1103: the trade that closes the open
\* position at bar i
EngineTrade(i) ==
  Trade(entry_idx, i, entry_price, ExitPrice(i, current_position),
        position_size * Sign(current_position),
        EnginePnl(entry_price, ExitPrice(i, current_position),
                  current_position))

\* engine.py 1019-1032
GenerateTradesBegin ==
  /\ gpc = "start"
  /\ engine_class = "GPUBacktestEngine"
  /\ trades' = << >>
  /\ entry_price' = 0
  /\ entry_idx' = None
  /\ current_position' = 0
  /\ bar' = 1
  /\ gpc' = "loop"
  /\ UNCHANGED <<schedVars, engineVars, execVars, equityVars, metricVars, overallVars, in_position,
                 slippage, commission>>

\* engine.py 1034-1080: one iteration of the loop
GenerateTradesStep ==
  /\ gpc = "loop"
  /\ engine_class = "GPUBacktestEngine"
  /\ bar < n_bars
  /\ LET changed == positions[bar] # positions[bar - 1]
         new_position == positions[bar]
     IN /\ trades' = IF changed /\ current_position # 0
                       THEN Append(trades, EngineTrade(bar)) ELSE trades
        /\ IF changed /\ new_position # 0
             THEN /\ entry_price' = EntryPrice(bar, new_position)
                  /\ entry_idx' = bar
                  /\ current_position' = new_position
             ELSE /\ current_position' = IF changed THEN 0
                                         ELSE current_position
                  /\ UNCHANGED <<entry_price, entry_idx>>
  /\ bar' = bar + 1
  /\ UNCHANGED <<schedVars, engineVars, execVars, equityVars, metricVars, overallVars, gpc,
                 in_position, slippage, commission>>

\* engine.py 1082-1105: the position that is still open is closed at the
\* last bar
GenerateTradesReturn ==
  /\ gpc = "loop"
  /\ engine_class = "GPUBacktestEngine"
  /\ bar >= n_bars
  /\ trades' = IF current_position # 0
                 THEN Append(trades, EngineTrade(n_bars - 1)) ELSE trades
  /\ gpc' = "returned"
  /\ UNCHANGED <<schedVars, engineVars, execVars, equityVars, metricVars, overallVars, bar,
                 current_position, in_position, entry_idx, entry_price,
                 slippage, commission>>

\* backtest_engine.py 158-163
ClassGenerateTradesBegin ==
  /\ gpc = "start"
  /\ engine_class = "BacktestEngine"
  /\ trades' = << >>
  /\ in_position' = FALSE
  /\ entry_price' = None
  /\ entry_idx' = None
  /\ bar' = 1
  /\ gpc' = "loop"
  /\ UNCHANGED <<schedVars, engineVars, execVars, equityVars, metricVars, overallVars,
                 current_position, slippage, commission>>

\* backtest_engine.py 180-182: the difference of the prices times the
\* position size, negated for a short entry
ClassPnl(ep, xp) ==
  Number((xp - ep) * ClassPositionSize
           * (IF positions[entry_idx] < 0 THEN -1 ELSE 1), RateDen)

\* backtest_engine.py 165-194: one iteration of the loop
ClassGenerateTradesStep ==
  /\ gpc = "loop"
  /\ engine_class = "BacktestEngine"
  /\ bar < n_bars
  /\ IF ~in_position /\ positions[bar] # 0
       THEN /\ in_position' = TRUE
            /\ entry_idx' = bar
            /\ entry_price' = close[bar] * RateDen
            /\ UNCHANGED trades
       ELSE IF in_position /\ (positions[bar] = 0 \/ bar = n_bars - 1)
       THEN /\ in_position' = FALSE
            /\ trades' = Append(trades,
                 Trade(entry_idx, bar, entry_price, close[bar] * RateDen,
                       ClassPositionSize,
                       ClassPnl(entry_price, close[bar] * RateDen)))
            /\ UNCHANGED <<entry_idx, entry_price>>
       ELSE UNCHANGED <<in_position, entry_idx, entry_price, trades>>
  /\ bar' = bar + 1
  /\ UNCHANGED <<schedVars, engineVars, execVars, equityVars, metricVars, overallVars, gpc,
                 current_position, slippage, commission>>

\* backtest_engine.py 196
ClassGenerateTradesReturn ==
  /\ gpc = "loop"
  /\ engine_class = "BacktestEngine"
  /\ bar >= n_bars
  /\ gpc' = "returned"
  /\ UNCHANGED <<schedVars, engineVars, execVars, equityVars, metricVars, overallVars, bar, trades,
                 current_position, in_position, entry_idx, entry_price,
                 slippage, commission>>

\* ------------------------------------------------ _calculate_equity_curve
\* engine.py 1107-1171, called by _run_backtest after _generate_trades with
\* the same positions, closes, commission and slippage.  Its locals i,
\* position and entry_price are the variables bar, current_position and
\* entry_price.  Equity is counted in units of the initial capital that is
\* passed, so that equity[0] is 1.

\* models/job.py 39: the default of initial_capital
InitialCapital == 100000

RECURSIVE Gcd(_, _)
Gcd(a, b) == IF b = 0 THEN a ELSE Gcd(b, a % b)

\* the float n / d, d # 0, in lowest terms
Reduced(n, d) ==
  LET g == Gcd(Abs(n), Abs(d))
  IN Number((n * Sign(d)) \div g, Abs(d) \div g)

\* x + y over the least common denominator
Plus(x, y) ==
  LET g == Gcd(x.den, y.den)
  IN Reduced(x.num * (y.den \div g) + y.num * (x.den \div g),
             (x.den \div g) * y.den)

Minus(x, y) == Plus(x, Number(-y.num, y.den))

\* x * y, each numerator reduced against the other denominator first
Times(x, y) ==
  LET a == Reduced(x.num, y.den)
      b == Reduced(y.num, x.den)
  IN Number(a.num * b.num, a.den * b.den)

Over(x, y) == Times(x, Reduced(y.den, y.num))

\* the float of a price or a rate that is given in units of 1/RateDen
Rate(r) == Reduced(r, RateDen)

\* engine.py 1118-1122
CalculateEquityCurveBegin ==
  /\ gpc = "returned"
  /\ epc = "start"
  /\ engine_class = "GPUBacktestEngine"
  /\ equity' = [i \in Bars |-> IF i = 0 THEN Number(1, 1) ELSE Number(0, 1)]
  /\ current_position' = 0
  /\ entry_price' = 0
  /\ shares' = Number(0, 1)
  /\ realized' = {}
  /\ bar' = 1
  /\ epc' = "loop"
  /\ UNCHANGED <<schedVars, engineVars, execVars, metricVars, overallVars, gpc, trades,
                 in_position, entry_idx, slippage, commission>>

\* engine.py 1136-1139: shares * (exit - entry) * sign minus the commission
\* on shares * abs(entry)
EquityPnl(i) ==
  Minus(Times(Times(shares, Minus(Rate(ExitPrice(i, current_position)),
                                  Rate(entry_price))),
              Number(Sign(current_position), 1)),
        Times(Rate(commission), Times(shares, Rate(Abs(entry_price)))))

\* engine.py 1165-1166
UnrealizedPnl(i) ==
  Times(Times(shares, Minus(Rate(close[i] * RateDen), Rate(entry_price))),
        Number(Sign(current_position), 1))

\* engine.py 1124-1169: one iteration of the loop
CalculateEquityCurveStep ==
  /\ epc = "loop"
  /\ bar < n_bars
  /\ LET changed == positions[bar] # positions[bar - 1]
         after_exit == IF current_position # 0
                         THEN Plus(equity[bar - 1], EquityPnl(bar))
                         ELSE equity[bar - 1]
         new_entry == EntryPrice(bar, positions[bar])
         size == Times(Number(1, 10), after_exit)
     IN IF changed
          THEN /\ realized' = IF current_position # 0
                                THEN realized \cup
                                       {[bar |-> bar, pnl |-> EquityPnl(bar)]}
                                ELSE realized
               /\ current_position' = positions[bar]
               /\ IF positions[bar] # 0
                    THEN /\ entry_price' = new_entry
                         /\ shares' = Over(size, Rate(Abs(new_entry)))
                         /\ equity' = [equity EXCEPT ![bar] =
                              Minus(after_exit, Times(Rate(commission), size))]
                    ELSE /\ equity' = [equity EXCEPT ![bar] = after_exit]
                         /\ UNCHANGED <<entry_price, shares>>
          ELSE /\ equity' = [equity EXCEPT ![bar] =
                    IF current_position # 0
                      THEN Plus(equity[bar - 1],
                                Minus(UnrealizedPnl(bar), equity[bar - 1]))
                      ELSE equity[bar - 1]]
               /\ UNCHANGED <<realized, current_position, entry_price, shares>>
  /\ bar' = bar + 1
  /\ UNCHANGED <<schedVars, engineVars, execVars, metricVars, overallVars, gpc, epc,
                 trades, in_position, entry_idx, slippage, commission>>

\* engine.py 1171
CalculateEquityCurveReturn ==
  /\ epc = "loop"
  /\ bar >= n_bars
  /\ epc' = "returned"
  /\ UNCHANGED <<schedVars, engineVars, execVars, metricVars, overallVars, gpc, bar,
                 trades, current_position, in_position, entry_idx,
                 entry_price, slippage, commission, equity, shares, realized>>

TradeNext ==
  \/ GenerateTradesBegin
  \/ GenerateTradesStep
  \/ GenerateTradesReturn
  \/ ClassGenerateTradesBegin
  \/ ClassGenerateTradesStep
  \/ ClassGenerateTradesReturn
  \/ CalculateEquityCurveBegin
  \/ CalculateEquityCurveStep
  \/ CalculateEquityCurveReturn

TradeSpec == TradeInit /\ [][TradeNext]_vars

\* ======================================================== max drawdown
\* _calculate_max_drawdown of gpu_engine/metrics.py (306-342) and
\* calculate_max_drawdown of utils/metrics.py (161-174) on an equity curve.
\* A float is an exact quotient, an infinity or NaN, as IEEE division
\* gives them.

\* ------------------------------------------------------------------ bounds
MaxEquity == 2
MaxCurveLen == 3

EquityValues == (-1)..MaxEquity

EquityCurves ==
  UNION {[0..(n - 1) -> EquityValues] : n \in 1..MaxCurveLen}

NaN == [kind |-> "nan", num |-> 0, den |-> 0]
Infinity == [kind |-> "inf", num |-> 1, den |-> 0]
NegInfinity == [kind |-> "-inf", num |-> -1, den |-> 0]

MetricsInit ==
  /\ SchedInit
  /\ EngineBuilt
  /\ strategy_name = "none"
  /\ backend = "none"
  /\ ExecOff
  /\ TradeOff
  /\ EquityOff
  /\ mpc = "start"
  /\ equity_curve \in EquityCurves
  /\ max_drawdown = None
  /\ OverallOff

RECURSIVE RunningMax(_, _)
\* np.maximum.accumulate(equity_curve)[i]
RunningMax(e, i) ==
  IF i = 0 THEN e[0]
  ELSE IF e[i] > RunningMax(e, i - 1) THEN e[i] ELSE RunningMax(e, i - 1)

\* a / b of two floats in an array division: no exception, 0/0 is NaN
Quotient(a, b) ==
  IF b = 0 THEN (IF a = 0 THEN NaN ELSE IF a > 0 THEN Infinity
                 ELSE NegInfinity)
  ELSE Number(a * Sign(b), Abs(b))

\* metrics.py 326 and 339, utils/metrics.py 172
Drawdown(e, i) == Quotient(RunningMax(e, i) - e[i], RunningMax(e, i))

\* np.max and cp.max of a non-empty array: NaN when an element is NaN
ArrayMax(S) ==
  IF NaN \in S THEN NaN
  ELSE IF Infinity \in S THEN Infinity
  ELSE IF S = {NegInfinity} THEN NegInfinity
  ELSE LET Numbers == S \ {NegInfinity}
       IN CHOOSE d \in Numbers :
            \A o \in Numbers : o.num * d.den <= d.num * o.den

\* metrics.py 338-340
MaxDrawdownOf(e) == ArrayMax({Drawdown(e, i) : i \in DOMAIN e})

\* metrics.py 317-333: the cupy path
CalculateMaxDrawdownCupy ==
  /\ mpc = "start"
  /\ engine_class = "GPUBacktestEngine"
  /\ CUPY_AVAILABLE
  /\ max_drawdown' = MaxDrawdownOf(equity_curve)
  /\ mpc' = "done"
  /\ UNCHANGED <<schedVars, engineVars, execVars, tradeVars, equityVars, overallVars,
                 equity_curve>>

\* metrics.py 334-335: the cupy path raised and the function falls back
CalculateMaxDrawdownCupyFails ==
  /\ mpc = "start"
  /\ engine_class = "GPUBacktestEngine"
  /\ CUPY_AVAILABLE
  /\ mpc' = "numpy"
  /\ UNCHANGED <<schedVars, engineVars, execVars, tradeVars, equityVars, overallVars,
                 equity_curve,
                 max_drawdown>>

\* metrics.py 337-342: the numpy path
CalculateMaxDrawdownNumpy ==
  /\ engine_class = "GPUBacktestEngine"
  /\ \/ mpc = "start" /\ ~CUPY_AVAILABLE
     \/ mpc = "numpy"
  /\ max_drawdown' = MaxDrawdownOf(equity_curve)
  /\ mpc' = "done"
  /\ UNCHANGED <<schedVars, engineVars, execVars, tradeVars, equityVars, overallVars,
                 equity_curve>>

\* utils/metrics.py 161-174
calculate_max_drawdown ==
  /\ mpc = "start"
  /\ engine_class = "BacktestEngine"
  /\ max_drawdown' = IF Cardinality(DOMAIN equity_curve) < 2
                       THEN Number(0, 1)
                       ELSE MaxDrawdownOf(equity_curve)
  /\ mpc' = "done"
  /\ UNCHANGED <<schedVars, engineVars, execVars, tradeVars, equityVars, overallVars,
                 equity_curve>>

MetricsNext ==
  \/ CalculateMaxDrawdownCupy
  \/ CalculateMaxDrawdownCupyFails
  \/ CalculateMaxDrawdownNumpy
  \/ calculate_max_drawdown

MetricsSpec == MetricsInit /\ [][MetricsNext]_vars

(***************************************************************************)
(* The overall metrics of a list of trades: _calculate_overall_metrics of  *)
(* gpu_server/gpu_engine/metrics.py (140-218) and calculate_metrics of     *)
(* utils/metrics.py (58-149).  A trade is its pnl, counted in units of the *)
(* initial capital, so that a return is the pnl itself.  A value that      *)
(* holds a square root is not computed: it is Float.                       *)
(***************************************************************************)

\* ------------------------------------------------------------------ bounds
MaxTrades == 3
MaxPnl == 1
MaxYears == 1
MaxRequested == 3

TradePnls == UNION {[1..n -> (-MaxPnl)..MaxPnl] : n \in 0..MaxTrades}

\* the names the calculation looks for in request.output.metrics
RequestedNames ==
  {"sharpe_ratio", "max_drawdown", "volatility", "max_consecutive_wins",
   "max_consecutive_losses", "cagr", "calmar_ratio", "sortino_ratio"}

RequestedSets ==
  {S \in SUBSET RequestedNames : Cardinality(S) <= MaxRequested}
    \cup {RequestedNames}

\* a finite float whose value is not computed
Float == [kind |-> "float", num |-> 0, den |-> 0]

\* the maximum drawdown a symbol's equity curve gives
SymbolDrawdowns == {Number(0, 1), Number(1, 2), NaN}

\* metrics.py 47-69: one symbol, a drawdown for it when it has trades
OverallInit ==
  /\ SchedInit
  /\ EngineBuilt
  /\ strategy_name = "none"
  /\ backend = "none"
  /\ ExecOff
  /\ TradeOff
  /\ EquityOff
  /\ mpc = "off"
  /\ equity_curve = NoArray
  /\ max_drawdown = None
  /\ opc = "start"
  /\ pnls \in TradePnls
  /\ drawdowns \in IF pnls = << >> THEN {<< >>}
                   ELSE {<<d>> : d \in SymbolDrawdowns}
  /\ years \in 0..MaxYears
  /\ metrics_to_calculate \in RequestedSets
  /\ metrics = NewMetrics

RECURSIVE SumOf(_)
SumOf(s) == IF s = << >> THEN 0 ELSE Head(s) + SumOf(Tail(s))

\* metrics.py 159 and utils/metrics.py 122
WinningTrades(p) == SelectSeq(p, LAMBDA x : x > 0)
\* metrics.py 160 and utils/metrics.py 123
LosingTrades(p) == SelectSeq(p, LAMBDA x : x < 0)

\* every element of the list is the same number
AllEqual(s) == \A i, j \in DOMAIN s : s[i] = s[j]

\* metrics.py 169-170
ProfitFactor(p) ==
  IF LosingTrades(p) # << >>
    THEN IF SumOf(LosingTrades(p)) # 0
           THEN Reduced(SumOf(WinningTrades(p)), Abs(SumOf(LosingTrades(p))))
           ELSE Number(0, 1)
    ELSE Unset

\* metrics.py 220-258: the standard deviation with ddof = 1 of one sample is
\* NaN, which is not 0
SharpeRatio(returns) ==
  IF Len(returns) = 1 THEN NaN
  ELSE IF AllEqual(returns) THEN Number(0, 1)
  ELSE Float

\* metrics.py 260-304: the downside deviation is 0 without a negative return
SortinoRatio(returns) ==
  IF \A i \in DOMAIN returns : returns[i] >= 0 THEN Number(0, 1) ELSE Float

\* x > y of two floats: False when one of them is NaN
GreaterThan(x, y) ==
  /\ x.kind = "number"
  /\ y.kind = "number"
  /\ x.num * y.den > y.num * x.den

RECURSIVE PyMax(_)
\* max(drawdowns) of a non-empty list
PyMax(s) ==
  IF Len(s) = 1 THEN s[1]
  ELSE LET m == PyMax(SubSeq(s, 1, Len(s) - 1))
       IN IF GreaterThan(s[Len(s)], m) THEN s[Len(s)] ELSE m

RECURSIVE CurrentCount(_, _, _)
\* current_count of _max_consecutive after the first i elements
CurrentCount(arr, val, i) ==
  IF i = 0 THEN 0
  ELSE IF arr[i] = val THEN CurrentCount(arr, val, i - 1) + 1 ELSE 0

\* metrics.py 373-394
MaxConsecutive(arr, val) ==
  LET Counts == {CurrentCount(arr, val, i) : i \in 0..Len(arr)}
  IN CHOOSE m \in Counts : \A c \in Counts : c <= m

\* metrics.py 186
Outcomes(p) == [i \in DOMAIN p |-> IF p[i] > 0 THEN 1 ELSE 0]

\* metrics.py 196-209: with years > 0 the power is taken; one year gives the
\* total return
Cagr(p, yrs, requested) ==
  IF "cagr" \in requested /\ p # << >> /\ Len(p) > 1 /\ yrs > 0
    THEN IF yrs = 1 THEN Number(SumOf(p), 1) ELSE Float
    ELSE Unset

\* metrics.py 176-177
OverallMaxDrawdown(dd, requested) ==
  IF "max_drawdown" \in requested /\ dd # << >> THEN PyMax(dd) ELSE Unset

\* metrics.py 211-213: the division is reached
CalmarDivides(dd, requested) ==
  /\ "calmar_ratio" \in requested
  /\ OverallMaxDrawdown(dd, requested).kind = "number"
  /\ OverallMaxDrawdown(dd, requested).num > 0

\* metrics.py 214: None / float raises TypeError
CalmarRaises(p, dd, yrs, requested) ==
  /\ CalmarDivides(dd, requested)
  /\ Cagr(p, yrs, requested) = Unset

\* metrics.py 152-218: the Metrics object returned
OverallMetrics(p, dd, yrs, requested) ==
  LET total_pnl == SumOf(p)
      consecutive == /\ p # << >>
                     /\ \/ "max_consecutive_wins" \in requested
                        \/ "max_consecutive_losses" \in requested
  IN [num_trades |-> IF p # << >> THEN Number(Len(p), 1) ELSE Unset,
      win_rate |-> IF p # << >>
                     THEN Reduced(Len(WinningTrades(p)), Len(p)) ELSE Unset,
      total_return |-> IF p # << >> THEN Number(total_pnl, 1) ELSE Unset,
      avg_trade |-> IF p # << >> THEN Reduced(total_pnl, Len(p)) ELSE Unset,
      profit_factor |-> IF p # << >> THEN ProfitFactor(p) ELSE Unset,
      sharpe_ratio |-> IF "sharpe_ratio" \in requested /\ p # << >>
                         THEN SharpeRatio(p) ELSE Unset,
      max_drawdown |-> OverallMaxDrawdown(dd, requested),
      volatility |-> IF "volatility" \in requested /\ p # << >>
                       THEN (IF AllEqual(p) THEN Number(0, 1) ELSE Float)
                       ELSE Unset,
      max_consecutive_wins |->
        IF consecutive THEN Number(MaxConsecutive(Outcomes(p), 1), 1)
        ELSE Unset,
      max_consecutive_losses |->
        IF consecutive THEN Number(MaxConsecutive(Outcomes(p), 0), 1)
        ELSE Unset,
      cagr |-> Cagr(p, yrs, requested),
      calmar_ratio |->
        IF CalmarDivides(dd, requested)
          THEN (IF Cagr(p, yrs, requested).kind = "number"
                  THEN Over(Cagr(p, yrs, requested),
                            OverallMaxDrawdown(dd, requested))
                  ELSE Float)
          ELSE Unset,
      sortino_ratio |-> IF "sortino_ratio" \in requested /\ p # << >>
                          THEN SortinoRatio(p) ELSE Unset]

\* metrics.py 140-218: the function returns its Metrics object
CalculateOverallMetrics ==
  /\ opc = "start"
  /\ engine_class = "GPUBacktestEngine"
  /\ ~CalmarRaises(pnls, drawdowns, years, metrics_to_calculate)
  /\ metrics' = OverallMetrics(pnls, drawdowns, years, metrics_to_calculate)
  /\ opc' = "returned"
  /\ UNCHANGED <<schedVars, engineVars, execVars, tradeVars, equityVars,
                 metricVars, pnls, drawdowns, years, metrics_to_calculate>>

\* metrics.py 214: the division raises and no Metrics object is returned
CalculateOverallMetricsRaises ==
  /\ opc = "start"
  /\ engine_class = "GPUBacktestEngine"
  /\ CalmarRaises(pnls, drawdowns, years, metrics_to_calculate)
  /\ opc' = "raised"
  /\ UNCHANGED <<schedVars, engineVars, execVars, tradeVars, equityVars,
                 metricVars, pnls, drawdowns, years, metrics_to_calculate,
                 metrics>>

\* utils/metrics.py 132 and 138: the equity after each trade
PnlEquityCurve(p) == [i \in 0..Len(p) |-> 1 + SumOf(SubSeq(p, 1, i))]

\* utils/metrics.py 151-159: the division by a standard deviation of 0 gives
\* an infinity or NaN
UtilsSharpeRatio(returns) ==
  IF Len(returns) < 2 THEN Number(0, 1)
  ELSE IF AllEqual(returns)
    THEN (IF returns[1] > 0 THEN Infinity
          ELSE IF returns[1] < 0 THEN NegInfinity ELSE NaN)
  ELSE Float

\* utils/metrics.py 126
UtilsProfitFactor(p) ==
  IF SumOf(LosingTrades(p)) # 0
    THEN Reduced(SumOf(WinningTrades(p)), Abs(SumOf(LosingTrades(p))))
    ELSE Infinity

\* utils/metrics.py 78-149: the BacktestMetrics object returned
UtilsMetrics(p, requested) ==
  IF p = << >> THEN NewMetrics
  ELSE [NewMetrics EXCEPT
          !.total_return = Number(SumOf(p), 1),
          !.win_rate = Reduced(Len(WinningTrades(p)), Len(p)),
          !.profit_factor = UtilsProfitFactor(p),
          !.avg_trade = Reduced(SumOf(p), Len(p)),
          !.num_trades = Number(Len(p), 1),
          !.sharpe_ratio = IF "sharpe_ratio" \in requested
                             THEN UtilsSharpeRatio(p) ELSE Unset,
          !.max_drawdown = IF "max_drawdown" \in requested
                             THEN MaxDrawdownOf(PnlEquityCurve(p))
                             ELSE Unset]

\* utils/metrics.py 58-149
calculate_metrics ==
  /\ opc = "start"
  /\ engine_class = "BacktestEngine"
  /\ metrics' = UtilsMetrics(pnls, metrics_to_calculate)
  /\ opc' = "returned"
  /\ UNCHANGED <<schedVars, engineVars, execVars, tradeVars, equityVars,
                 metricVars, pnls, drawdowns, years, metrics_to_calculate>>

OverallNext ==
  \/ CalculateOverallMetrics
  \/ CalculateOverallMetricsRaises
  \/ calculate_metrics

OverallSpec == OverallInit /\ [][OverallNext]_vars

\* ================================================================ claims

\* the statuses no step of the state machine leaves
Terminal == {COMPLETED, FAILED, CANCELLED}

\* the status steps the state machine of the scheduler allows; the first is
\* the creation of the row by submit_job
AllowedTransitions ==
  {<<ABSENT, PENDING>>, <<PENDING, RUNNING>>, <<RUNNING, COMPLETED>>,
   <<RUNNING, FAILED>>, <<PENDING, CANCELLED>>}

\* C1: under every interleaving of submit_job, cancel_job and the worker
\* loop, the persisted status of a job changes only along pending->running,
\* running->completed, running->failed and pending->cancelled.
C1_OnlyAllowedTransitions ==
  [][\A j \in JobIds :
       store'[j].status # store[j].status =>
         <<store[j].status, store'[j].status>> \in AllowedTransitions]_vars

\* C2: cancel_job returns True (and writes cancelled) only when the persisted
\* status at that moment is pending; for running, completed, failed and
\* cancelled it returns False and leaves the status as it is.
C2_CancelOnlyPending ==
  [][\A j \in JobIds : CancelCommit(j) => store[j].status = PENDING]_vars

\* the worker has taken job j and has not skipped it
WorkerHolds(j) ==
  /\ wjob = j
  /\ wpc \in {"activate", "mark", "run", "save_result", "cache_result",
              "save_error", "cache_error", "cleanup"}

\* C3: when cancel_job for a pending job has returned True before the worker
\* dequeued the job, the job is cancelled and stays cancelled, the worker
\* never runs it and never puts it into active_jobs.
C3_CancelledBeforeDequeueNeverRuns ==
  \A j \in cancelledQueued :
    /\ store[j].status = CANCELLED
    /\ ~WorkerHolds(j)
    /\ j \notin active_jobs

\* C3 witness: such a job was dequeued by the worker and skipped, and the
\* worker has gone on to another job
C3_Witness ==
  \E j \in cancelledQueued :
    /\ j \notin QueuedIds
    /\ store[j].status = CANCELLED
    /\ wpc = "run"
    /\ wjob # j

\* C4: with a worker loop that keeps running, every job submit_job accepted
\* eventually has persisted status completed, failed or cancelled: no job
\* stays pending or running forever, whatever the execution or the store
\* writes that record its outcome do.
C4_EveryJobEventuallyTerminal ==
  \A j \in JobIds :
    (store[j].status \in {PENDING, RUNNING}) ~> (store[j].status \in Terminal)

\* C5: every job whose persisted status is terminal carries either results
\* or a non-empty error, never both and never neither; a completed job has
\* results and no error, a failed job an error and no results.
C5_TerminalHasResultsXorError ==
  \A j \in JobIds :
    /\ store[j].status \in Terminal =>
         (store[j].results # NoResults) # (store[j].error # NoError)
    /\ store[j].status = COMPLETED =>
         store[j].results # NoResults /\ store[j].error = NoError
    /\ store[j].status = FAILED =>
         store[j].error # NoError /\ store[j].results = NoResults

\* C6: once get_job_status(job_id) has returned a terminal status, every
\* later get_job_status(job_id) returns the same status, results and error,
\* whatever happens in between.
C6_TerminalStatusQueryStable ==
  [][\A j \in JobIds :
       GetJobStatus(j).status \in Terminal =>
         GetJobStatus(j)' = GetJobStatus(j)]_vars

\* C7: the job the worker dequeues has the smallest priority value among
\* all jobs in the queue at that moment.
C7_DequeuesSmallestPriority ==
  [][WorkerGet => \A u \in job_queue : witem'[1] <= u[1]]_vars

\* the place of job j, queued or just dequeued, in the order of submission
SubmitIndex(j) == CHOOSE i \in 1..Len(order) : order[i] = j

\* C7 witness: the worker has taken a job while a job submitted before it,
\* with a smaller job id and a larger priority value, waits in the queue
C7_Witness ==
  /\ wpc = "check"
  /\ \E u \in job_queue :
       /\ u[1] > witem[1]
       /\ u[2] < wjob
       /\ SubmitIndex(u[2]) < SubmitIndex(wjob)

\* C8: among queued jobs of equal priority the worker dequeues in the order
\* of submission: the job it takes was enqueued before every other queued
\* job of the same priority.
C8_FifoAmongEqualPriority ==
  wpc = "check" =>
    \A u \in job_queue :
      u[1] = witem[1] => SubmitIndex(wjob) < SubmitIndex(u[2])

\* the worker has dealt with the outcome of the job it holds and is about to
\* remove it from active_jobs
WorkerDoneWithJob == wpc = "cleanup"

\* C9: when the execution of a job raises, the persisted status of the job
\* becomes failed with the error message recorded, the job leaves
\* active_jobs and the worker goes on to the jobs still queued.
C9_RaisedJobRecordedFailed ==
  /\ (WorkerDoneWithJob /\ werr # NoError) =>
       /\ store[wjob].status = FAILED
       /\ store[wjob].error = werr
  /\ wpc \in {"get", "check"} => active_jobs = {}

\* C10: when the data provider returns an empty mapping, the job ends with
\* persisted status failed, an error message saying that no data is
\* available, and no results.
C10_EmptyDataJobFailed ==
  (WorkerDoneWithJob /\ wdata = "empty") =>
     /\ store[wjob].status = FAILED
     /\ store[wjob].error = NoDataMsg
     /\ store[wjob].results = NoResults

\* C11: when the commit of the new row in submit_job raises, the exception
\* reaches the caller and no id is returned; no row exists for the id the
\* call had drawn and nothing is on the queue for it, now or later; every
\* queued item has a persisted row.
C11_FailedSubmitLeavesNothing ==
  /\ \A j \in failedSubmits :
       /\ store[j] = NoRecord
       /\ j \notin QueuedIds
       /\ j \notin active_jobs
       /\ job_results[j] = NoResponse
       /\ ~(wjob = j /\ wpc # "get")
  /\ \A j \in QueuedIds : store[j].status # ABSENT

\* C11 witness: a submit_job call has raised, and the worker runs a job that
\* another submit_job call persisted and enqueued
C11_Witness ==
  /\ failedSubmits # {}
  /\ wpc = "run"
  /\ wjob \notin failedSubmits
  /\ store[wjob].status = RUNNING

\* C12: when the write that records the result of a finished job raises, the
\* worker attempts the write once more or records the job as failed with an
\* error; it never goes on with the job's row still saying running.
C12_FailedResultWriteRetried ==
  [][(wpc = "save_result" /\ WorkerSaveFails) =>
       /\ wpc' = "save_result" \/ (store'[wjob].status = FAILED /\
                                     store'[wjob].error # NoError)
       /\ wpc' = "cleanup" => store'[wjob].status # RUNNING]_vars

\* the backends that do not use the compute device
CpuBackends == {"cpu"}

\* C13: when the device initialization raises during construction, the
\* constructor still returns, and every strategy the engine executes
\* afterwards runs on a CPU backend (none runs on the device, none raises
\* because of the missing device).
C13_InitFailureDemotesToCpu ==
  init_failed =>
    /\ ipc # "raised"
    /\ backend # "none" => backend \in CpuBackends

\* the execution has returned its two arrays for valid parameters
Returned == xpc = "done" /\ ValidParameters(strategy_name, parameters)

\* C14: an execution whose parameters violate the constraints of its
\* strategy is rejected before anything is computed: it raises, and no
\* signal array and no position array is produced.
C14_InvalidParametersRejected ==
  (xpc # "off" /\ ~ValidParameters(strategy_name, parameters)) =>
     /\ xpc \in {"start", "raised"}
     /\ signals = NoArray
     /\ positions = NoArray

\* C15: in every backend and for every strategy the returned position array
\* is the forward-fill of the returned signal array: positions[0] = 0, and
\* positions[i] is signals[i] when that is not 0 and positions[i-1] when it
\* is.
C15_PositionsAreForwardFill ==
  Returned => positions = ForwardFill(signals)

\* C16: for every returned pair of arrays positions[0] = 0 and every later
\* positions[i] is signals[i] or positions[i-1].
C16_ForwardFillInvariant ==
  Returned =>
    /\ positions[0] = 0
    /\ \A i \in Bars \ {0} : positions[i] \in {signals[i], positions[i - 1]}

\* C18: for valid parameters the device-kernel path, the vectorized path and
\* the scalar path of the engine all return, without raising, the signal
\* array and the position array that the scalar path returns.
C18_BackendParity ==
  (engine_class = "GPUBacktestEngine" /\ xpc \in {"done", "raised"}
     /\ ValidParameters(strategy_name, parameters)) =>
    /\ xpc = "done"
    /\ signals = CpuSignals(strategy_name, parameters)
    /\ positions = CpuPositions(strategy_name, parameters)


\* C17: for closes [5,5,5,10,10,10,5,5,5] with MovingAverageCrossover,
\* short_window 2, long_window 3 and signal_threshold 0, the execution
\* returns signal [0,0,0,1,1,0,-1,-1,0] and position [0,0,0,1,1,1,-1,-1,-1].
ScenarioSignals == <<0, 0, 0, 1, 1, 0, -1, -1, 0>>
ScenarioPositions == <<0, 0, 0, 1, 1, 1, -1, -1, -1>>

C17_ScenarioArrays ==
  (xpc \in {"done", "raised"} /\ parameters = ScenarioParameters
     /\ strategy_name = "MovingAverageCrossover") =>
    /\ xpc = "done"
    /\ \A i \in Bars : /\ signals[i] = ScenarioSignals[i + 1]
                        /\ positions[i] = ScenarioPositions[i + 1]

\* C19: every trade _generate_trades returns is closed with an exit date
\* that is not before its entry date, and every bar at which a position is
\* held lies within a returned trade; a position held at the final bar,
\* also one entered there, has a trade that exits at the final bar.
C19_TradeClosure ==
  gpc = "returned" =>
    /\ \A k \in DOMAIN trades :
         /\ trades[k].exit_date \in Bars
         /\ trades[k].exit_price > 0
         /\ trades[k].pnl.kind = "number"
         /\ trades[k].exit_date >= trades[k].entry_date
    /\ \A b \in Bars :
         positions[b] # 0 =>
           \E k \in DOMAIN trades :
             trades[k].entry_date <= b /\ b <= trades[k].exit_date
    /\ positions[n_bars - 1] # 0 =>
         \E k \in DOMAIN trades : trades[k].exit_date = n_bars - 1

\* C20: for an equity curve with at least one value and no negative value
\* the maximum drawdown calculated is a number between 0 and 1.
C20_DrawdownBound ==
  (mpc = "done" /\ \A i \in DOMAIN equity_curve : equity_curve[i] >= 0) =>
    /\ max_drawdown.kind = "number"
    /\ 0 <= max_drawdown.num
    /\ max_drawdown.num <= max_drawdown.den

\* config.py 27: the default of MAX_CONCURRENT_JOBS, the size of the pool
MAX_CONCURRENT_JOBS == 10

\* what the code does instead of C21: _process_jobs is the only thread that
\* takes jobs, so at most one job is active at any time
SequentialExecution == Cardinality(active_jobs) <= 1

\* C21: jobs execute in parallel up to the pool size: the number of jobs
\* executed at once never exceeds MAX_CONCURRENT_JOBS, and when two jobs are
\* queued a state follows in which two different jobs are executed at the
\* same time.
C21_JobsRunInParallel ==
  /\ [](Cardinality(active_jobs) <= MAX_CONCURRENT_JOBS)
  /\ (Cardinality(QueuedIds) >= 2) ~> (Cardinality(active_jobs) >= 2)

\* the maximal runs of equal non-zero positions, as <<first bar, last bar>>
PositionRuns ==
  {r \in Bars \X Bars :
     /\ r[1] <= r[2]
     /\ positions[r[1]] # 0
     /\ \A b \in r[1]..r[2] : positions[b] = positions[r[1]]
     /\ r[1] = 0 \/ positions[r[1] - 1] # positions[r[1]]
     /\ r[2] = n_bars - 1 \/ positions[r[2] + 1] # positions[r[2]]}

\* the bar at which the position of a run that ends at bar b next changes,
\* the last bar when it does not
RunExit(b) == IF b = n_bars - 1 THEN b ELSE b + 1

\* C22: for a position series that starts with 0, _generate_trades returns
\* exactly one trade per maximal run of equal non-zero positions, entered at
\* the first bar of the run, exited at the bar where the position next
\* changes or at the last bar, in the direction of the run.
C22_OneTradePerRun ==
  gpc = "returned" =>
    /\ Len(trades) = Cardinality(PositionRuns)
    /\ \A r \in PositionRuns :
         \E k \in DOMAIN trades :
           /\ trades[k].entry_date = r[1]
           /\ trades[k].exit_date = RunExit(r[2])
           /\ Sign(trades[k].position_size) = positions[r[1]]

\* C23: at every bar where the position changes while a position is held,
\* the pnl _calculate_equity_curve adds to the equity is the pnl of the
\* trade _generate_trades closes at that bar for the same inputs.
C23_EquityPnlMatchesTrade ==
  epc = "returned" =>
    \A r \in realized :
      \E k \in DOMAIN trades :
        /\ trades[k].exit_date = r.bar
        /\ trades[k].entry_date < r.bar
        /\ Reduced(trades[k].pnl.num, trades[k].pnl.den * InitialCapital)
             = r.pnl

\* C24: at every bar i >= 1 whose position equals that of bar i - 1,
\* _calculate_equity_curve carries the equity forward, equity[i] =
\* equity[i-1], whether the position held is 0 or not.
C24_EquityCarriedForward ==
  epc = "returned" =>
    \A i \in Bars \ {0} :
      positions[i] = positions[i - 1] => equity[i] = equity[i - 1]

\* the length of the longest run of consecutive trades whose pnl has the
\* sign sgn
LongestRun(p, sgn) ==
  LET Runs == {r \in (DOMAIN p) \X (DOMAIN p) :
                 /\ r[1] <= r[2]
                 /\ \A i \in r[1]..r[2] : Sign(p[i]) = sgn}
      Lengths == {r[2] - r[1] + 1 : r \in Runs} \cup {0}
  IN CHOOSE m \in Lengths : \A l \in Lengths : l <= m

\* the streaks of a non-empty trade list were asked for and calculated
StreaksCalculated ==
  /\ opc = "returned"
  /\ engine_class = "GPUBacktestEngine"
  /\ pnls # << >>
  /\ \/ "max_consecutive_wins" \in metrics_to_calculate
     \/ "max_consecutive_losses" \in metrics_to_calculate

\* C25: max_consecutive_wins is the length of the longest run of consecutive
\* trades with pnl > 0 and max_consecutive_losses that of the longest run of
\* consecutive trades with pnl < 0, in trade order; a trade with pnl = 0
\* counts in neither run.
C25_StreaksAreSignRuns ==
  StreaksCalculated =>
    /\ metrics.max_consecutive_wins = Number(LongestRun(pnls, 1), 1)
    /\ metrics.max_consecutive_losses = Number(LongestRun(pnls, -1), 1)

\* the trade list is not empty and has no losing trade
NoLosingTrade ==
  /\ opc = "returned"
  /\ pnls # << >>
  /\ \A i \in DOMAIN pnls : pnls[i] >= 0

\* the Sharpe ratio of at least two equal returns, whose standard deviation
\* is 0, was asked for
ZeroVolatility ==
  /\ opc = "returned"
  /\ "sharpe_ratio" \in metrics_to_calculate
  /\ Len(pnls) >= 2
  /\ AllEqual(pnls)

\* C26: a ratio metric whose denominator is 0 is reported as the number 0:
\* the profit factor of a non-empty trade list with no losing trade is 0
\* (neither unset nor an infinity), and so is the Sharpe ratio of returns
\* whose standard deviation is 0.
C26_ZeroDenominatorGivesZero ==
  /\ NoLosingTrade => metrics.profit_factor = Number(0, 1)
  /\ ZeroVolatility => metrics.sharpe_ratio = Number(0, 1)

\* calmar_ratio is requested and the inputs leave cagr undefined, or the
\* maximum drawdown is 0 or unset
CalmarUndefined ==
  /\ opc \in {"returned", "raised"}
  /\ engine_class = "GPUBacktestEngine"
  /\ "calmar_ratio" \in metrics_to_calculate
  /\ \/ "cagr" \notin metrics_to_calculate
     \/ Len(pnls) < 2
     \/ years <= 0
     \/ "max_drawdown" \notin metrics_to_calculate
     \/ drawdowns = << >>
     \/ \A i \in DOMAIN drawdowns : drawdowns[i] = Number(0, 1)

\* C27: when calmar_ratio is requested and cagr is undefined (not requested,
\* fewer than two trades, or years <= 0) or max_drawdown is 0 or unset,
\* calmar_ratio is left unset and the calculation returns without raising.
C27_CalmarSkipped ==
  CalmarUndefined => opc = "returned" /\ metrics.calmar_ratio = Unset

\* the step in which the worker executes job j (_run_backtest, line 437)
Executes(j) ==
  /\ wpc = "run"
  /\ wjob = j
  /\ wpc' \in {"save_result", "save_error"}

\* C28: once cancel_job(job_id) has returned True, which is when the row
\* says cancelled, the worker never executes that job afterwards and the
\* persisted status remains cancelled forever, under every interleaving of
\* cancel_job with the worker's dequeue-time check and its write of running.
C28_CancelledNeverExecuted ==
  [][\A j \in JobIds :
       store[j].status = CANCELLED =>
         store'[j].status = CANCELLED /\ ~Executes(j)]_vars

\* C29: whenever job_results holds an entry for a job, the persisted record
\* of that job has the same status as the cached entry, so that
\* get_job_status never reports a status different from the stored one.
C29_CacheAgreesWithStore ==
  \A j \in JobIds :
    job_results[j] # NoResponse =>
      /\ store[j].status = job_results[j].status
      /\ GetJobStatus(j).status = store[j].status

RECURSIVE InOrderPosition(_)
\* what thread idx writes to positions[idx] when the threads of the launch
\* run one after the other in index order
InOrderPosition(idx) ==
  LET class == engine_class = "BacktestEngine"
      s == BarSignal(strategy_name, idx, parameters, 0, class)
      early == \/ idx < FirstBar(strategy_name, parameters)
               \/ class /\ ClassKernelReturnsEarly(strategy_name, idx,
                                                   parameters)
  IN IF early THEN 0
     ELSE IF s # 0 THEN s
     ELSE IF idx > 0 /\ (class \/ KernelKeepsPrevious(strategy_name, idx,
                                                      parameters))
       THEN InOrderPosition(idx - 1)
     ELSE 0

\* a kernel launch has returned its arrays
KernelReturned == Returned /\ backend = "gpu"

\* C30: the arrays one kernel launch produces do not depend on the order in
\* which the per-bar threads run: no thread reads a position another thread
\* writes, and every order of the threads gives the positions that the
\* threads give when they run one after the other in index order.
C30_ThreadOrderIndependent ==
  KernelReturned => positions = [i \in Bars |-> InOrderPosition(i)]


====
